---- MODULE Spec2Model ----
(***************************************************************************)
(* Model of the secure static file server of go-file-system-article:       *)
(*   - FilteringFS.Open (index-or-deny for directories), step by step, so  *)
(*     that concurrent calls interleave at every store operation;          *)
(*   - wrappedFileServer (the dot-file guard) and the three compositions   *)
(*     of the repository's main functions.                                 *)
(*                                                                         *)
(* A request path is a sequence of atoms: "/" (separator), "." (the        *)
(* hidden-file marker character) or a name fragment that holds neither     *)
(* ("a", "index.html" - the latter stands for the index document name,     *)
(* whose inner dot is never the first character of a segment).  A segment  *)
(* is a sequence of atoms without "/"; a store path is a sequence of       *)
(* segments (the fs.FS name "a/index.html" is << <<"a">>, <<"index.html">> >>, *)
(* the root "." is << <<".">> >>).                                         *)
(***************************************************************************)
EXTENDS Naturals, Sequences, FiniteSets

VARIABLES comp, store, handles, calls, reqs, ncalls

vars == <<comp, store, handles, calls, reqs, ncalls>>

\* ------------------------------------------------------------------ bounds
\* Longest request path (in atoms) a client sends.
MaxLen == 4
\* Number of FilteringFS.Open invocations in one behaviour of Spec.
MaxOpens == 2

\* ------------------------------------------------------------- vocabulary
Slash == "/"
Dot == "."
IndexName == "index.html"
Atoms == {Slash, Dot, "a", IndexName}

Callers == {"c1", "c2"}

DotSeg == <<Dot>>
DotDotSeg == <<Dot, Dot>>
IndexSeg == <<IndexName>>

RootP == <<DotSeg>>
AP == << <<"a">> >>
IdxP == <<IndexSeg>>
AIdxP == << <<"a">>, IndexSeg >>
HiddenP == << <<Dot, "a">> >>
AAP == << <<"a">>, <<"a">> >>

\* ----------------------------------------------------------- the store
\* What the wrapped fs.FS holds at a path:
\*   "none"        no entry
\*   "file"        a regular file
\*   "dir"         a directory
\*   "dirbadclose" a directory whose handle's Close returns an error
\*   "badstat"     an entry that opens but whose handle's Stat returns an error
DirKinds == {"dir", "dirbadclose"}

Lookup(p) == IF p \in DOMAIN store THEN store[p] ELSE "none"

\* The stores FilteringFS may wrap (any fs.FS): a root directory, an entry "a" of any
\* kind, the root's index.html, a's index.html (only when "a" can have
\* children) and a hidden file ".a".
Stores ==
  { s \in [ {RootP, AP, IdxP, AIdxP, HiddenP} ->
              {"none", "file", "dir", "dirbadclose", "badstat"} ] :
      /\ s[RootP] \in DirKinds
      /\ s[IdxP] \in {"none", "file", "dir"}
      /\ s[AIdxP] \in {"none", "file", "dir"}
      /\ s[AP] \in {"none", "file"} => s[AIdxP] = "none"
      /\ s[HiddenP] \in {"none", "file"} }

\* What //go:embed can hold: embedding a directory leaves out its dot files,
\* and an embedded entry's Stat and Close never fail.
EmbedStores ==
  { s \in Stores : /\ \A p \in DOMAIN s : s[p] \in {"none", "file", "dir"}
                   /\ s[HiddenP] = "none" }

\* fs.ValidPath: "." alone, or segments none of which is empty, "." or "..".
ValidPath(p) ==
  \/ p = RootP
  \/ /\ Len(p) > 0
     /\ \A i \in 1..Len(p) : p[i] # <<>> /\ p[i] # DotSeg /\ p[i] # DotDotSeg

\* The error of store.Open(p), "none" when it succeeds.
StoreOpenErr(p) ==
  IF ~ValidPath(p) THEN "ErrInvalid"
  ELSE IF Lookup(p) = "none" THEN "ErrNotExist"
  ELSE "none"

\* path.Clean on a list of segments: drops empty and "." segments, resolves
\* ".." against the segment before it; a rooted path drops a ".." at the
\* root, a relative one keeps it.
RECURSIVE CleanAcc(_, _, _)
CleanAcc(segs, acc, rooted) ==
  IF segs = <<>> THEN acc
  ELSE LET s == Head(segs) IN
       IF s = <<>> \/ s = DotSeg THEN CleanAcc(Tail(segs), acc, rooted)
       ELSE IF s = DotDotSeg
            THEN IF acc # <<>> /\ acc[Len(acc)] # DotDotSeg
                 THEN CleanAcc(Tail(segs), SubSeq(acc, 1, Len(acc) - 1), rooted)
                 ELSE IF rooted
                      THEN CleanAcc(Tail(segs), acc, rooted)
                      ELSE CleanAcc(Tail(segs), Append(acc, s), rooted)
            ELSE CleanAcc(Tail(segs), Append(acc, s), rooted)

\* filepath.Join(name, "index.html"): the cleaned, relative concatenation.
JoinIndex(name) ==
  LET c == CleanAcc(Append(name, IndexSeg), <<>>, FALSE) IN
  IF c = <<>> THEN RootP ELSE c

\* ------------------------------------------------------ handles and calls
NoHandle == 0
NoCall == 0

IdleCall ==
  [pc |-> "idle", id |-> NoCall, name |-> <<>>, f |-> NoHandle,
   err |-> "none", ret |-> NoHandle, nopen |-> 0, nclose |-> 0]

IdleReq ==
  [stage |-> "none", path |-> <<>>, resp |-> "none", by |-> "none",
   fsCalls |-> 0, fsArg |-> <<>>, upath |-> <<>>, opened |-> <<>>,
   dirh |-> NoHandle, listed |-> <<>>]

NewHandle(name, id) ==
  [path |-> name, by |-> id, open |-> TRUE, closedBy |-> NoCall]

\* The root file system handed to the file server is a FilteringFS.
Wrapped_Never == FALSE

Wrapped == comp = "filtered"

\* The names FilteringFS.Open is called with directly.
OpenNames == {RootP, AP, IdxP, AIdxP, AAP, << DotSeg, <<"a">> >>}

\* ----------------------------------------------- FilteringFS.Open, by step
\* A caller enters FilteringFS.Open(name).
Call(c, name) ==
  /\ calls[c].pc = "idle"
  /\ reqs[c].stage = "none"
  /\ ncalls < MaxOpens
  /\ ncalls' = ncalls + 1
  /\ calls' = [calls EXCEPT ![c] =
                 [IdleCall EXCEPT !.pc = "open", !.id = ncalls + 1, !.name = name]]
  /\ UNCHANGED <<comp, store, handles, reqs>>

\* f, err := wrapper.fs.Open(name); if err != nil { return nil, err }
\* (for a bare store behind the file server the opened handle is the result).
OpenStep(c) ==
  /\ calls[c].pc = "open"
  /\ LET e == StoreOpenErr(calls[c].name) IN
     IF e # "none"
     THEN /\ calls' = [calls EXCEPT ![c].pc = "done", ![c].err = e,
                                     ![c].nopen = @ + 1]
          /\ UNCHANGED handles
     ELSE /\ handles' = Append(handles, NewHandle(calls[c].name, calls[c].id))
          /\ calls' = [calls EXCEPT ![c].f = Len(handles) + 1,
                                     ![c].nopen = @ + 1,
                                     ![c].pc = IF Wrapped THEN "stat" ELSE "done",
                                     ![c].ret = IF Wrapped THEN NoHandle
                                                ELSE Len(handles) + 1]
  /\ UNCHANGED <<comp, store, reqs, ncalls>>

StatStep_AlwaysProbe(c) ==
  /\ calls[c].pc = "stat"
  /\ IF Lookup(calls[c].name) = "badstat"
     THEN calls' = [calls EXCEPT ![c].pc = "done", ![c].err = "ErrStat"]
     ELSE calls' = [calls EXCEPT ![c].pc = "probe"]
  /\ UNCHANGED <<comp, store, handles, reqs, ncalls>>

\* s, err := f.Stat(); if err != nil { return nil, err }
\* if s.IsDir() { ...probe... }; return f, nil
StatStep(c) ==
  /\ calls[c].pc = "stat"
  /\ LET k == Lookup(calls[c].name) IN
     IF k = "badstat"
     THEN calls' = [calls EXCEPT ![c].pc = "done", ![c].err = "ErrStat"]
     ELSE IF k \in DirKinds
          THEN calls' = [calls EXCEPT ![c].pc = "probe"]
          ELSE calls' = [calls EXCEPT ![c].pc = "done", ![c].ret = calls[c].f]
  /\ UNCHANGED <<comp, store, handles, reqs, ncalls>>

\* The outcome of FilteringFS.Open(name) run alone on the store.
Classify(name) ==
  IF StoreOpenErr(name) # "none" THEN "fail"
  ELSE IF Lookup(name) = "badstat" THEN "fail"
  ELSE IF Lookup(name) \in DirKinds /\ StoreOpenErr(JoinIndex(name)) # "none"
       THEN "fail"
       ELSE "ok"

ProbeStep_ThroughWrapper(c) ==
  /\ calls[c].pc = "probe"
  /\ LET index == JoinIndex(calls[c].name) IN
     IF Classify(index) = "ok"
     THEN /\ handles' = Append(handles, NewHandle(index, calls[c].id))
          /\ calls' = [calls EXCEPT ![c].pc = "done", ![c].ret = calls[c].f,
                                     ![c].nopen = @ + 1]
     ELSE /\ calls' = [calls EXCEPT ![c].pc = "done", ![c].nopen = @ + 1,
                                     ![c].err = "ErrNotExist"]
          /\ UNCHANGED handles
  /\ UNCHANGED <<comp, store, reqs, ncalls>>

\* index := filepath.Join(name, "index.html")
\* if _, err := wrapper.fs.Open(index); err != nil { ...close... }
\* The probe's handle is discarded; nothing closes it.
ProbeStep(c) ==
  /\ calls[c].pc = "probe"
  /\ LET index == JoinIndex(calls[c].name)
         e == StoreOpenErr(index) IN
     IF e = "none"
     THEN /\ handles' = Append(handles, NewHandle(index, calls[c].id))
          /\ calls' = [calls EXCEPT ![c].pc = "done", ![c].ret = calls[c].f,
                                     ![c].nopen = @ + 1]
     ELSE /\ calls' = [calls EXCEPT ![c].pc = "close", ![c].err = e,
                                     ![c].nopen = @ + 1]
          /\ UNCHANGED handles
  /\ UNCHANGED <<comp, store, reqs, ncalls>>

CloseStep_SwallowCloseErr(c) ==
  /\ calls[c].pc = "close"
  /\ handles' = [handles EXCEPT ![calls[c].f].open = FALSE,
                                ![calls[c].f].closedBy = calls[c].id]
  /\ calls' = [calls EXCEPT ![c].pc = "done", ![c].nclose = @ + 1]
  /\ UNCHANGED <<comp, store, reqs, ncalls>>

CloseStep_NoClose(c) ==
  /\ calls[c].pc = "close"
  /\ calls' = [calls EXCEPT ![c].pc = "done"]
  /\ UNCHANGED <<comp, store, handles, reqs, ncalls>>

CloseStep_ClosesNewest(c) ==
  /\ calls[c].pc = "close"
  /\ handles' = [handles EXCEPT ![Len(handles)].open = FALSE,
                                ![Len(handles)].closedBy = calls[c].id]
  /\ calls' = [calls EXCEPT ![c].pc = "done", ![c].nclose = @ + 1,
                 ![c].err = IF Lookup(calls[c].name) = "dirbadclose"
                            THEN "ErrClose" ELSE @]
  /\ UNCHANGED <<comp, store, reqs, ncalls>>

\* closeErr := f.Close(); if closeErr != nil { return nil, closeErr }
\* return nil, err
\* Whether a Close that reports an error released the handle is the store's
\* business: both outcomes are possible.
CloseStep(c) ==
  /\ calls[c].pc = "close"
  /\ IF Lookup(calls[c].name) = "dirbadclose"
     THEN /\ \E stillOpen \in BOOLEAN :
               handles' = [handles EXCEPT ![calls[c].f].open = stillOpen,
                                          ![calls[c].f].closedBy = calls[c].id]
          /\ calls' = [calls EXCEPT ![c].pc = "done", ![c].err = "ErrClose",
                                     ![c].nclose = @ + 1]
     ELSE /\ handles' = [handles EXCEPT ![calls[c].f].open = FALSE,
                                        ![calls[c].f].closedBy = calls[c].id]
          /\ calls' = [calls EXCEPT ![c].pc = "done", ![c].nclose = @ + 1]
  /\ UNCHANGED <<comp, store, reqs, ncalls>>

\* The direct caller takes the result; its slot is free for the next call.
Return(c) ==
  /\ calls[c].pc = "done"
  /\ reqs[c].stage = "none"
  /\ calls' = [calls EXCEPT ![c] = IdleCall]
  /\ UNCHANGED <<comp, store, handles, reqs, ncalls>>

\* ------------------------------------------------------------ Spec
Init ==
  /\ comp = "filtered"
  /\ store \in { s \in Stores : s[HiddenP] = "none" }
  /\ handles = <<>>
  /\ calls = [c \in Callers |-> IdleCall]
  /\ reqs = [c \in Callers |-> IdleReq]
  /\ ncalls = 0

Next ==
  \/ \E c \in Callers, name \in OpenNames : Call(c, name)
  \/ \E c \in Callers : OpenStep(c)
  \/ \E c \in Callers : StatStep(c)
  \/ \E c \in Callers : ProbeStep(c)
  \/ \E c \in Callers : CloseStep(c)
  \/ \E c \in Callers : Return(c)

Spec == Init /\ [][Next]_vars

\* ----------------------------------------------------- wrappedFileServer
\* if len(url) > 0 && url[:1] == "/" { url = url[1:] }
StripLeading(url) == IF Len(url) > 0 /\ url[1] = Slash THEN Tail(url) ELSE url

\* strings.Split(url, "/"): the segments between separators, empty ones kept.
RECURSIVE SplitAcc(_, _, _)
SplitAcc(url, cur, acc) ==
  IF url = <<>> THEN Append(acc, cur)
  ELSE IF Head(url) = Slash
       THEN SplitAcc(Tail(url), <<>>, Append(acc, cur))
       ELSE SplitAcc(Tail(url), Append(cur, Head(url)), acc)

Split(url) == SplitAcc(url, <<>>, <<>>)

GuardRejects_FirstStemOnly(path) ==
  LET stems == Split(StripLeading(path)) IN
  Len(stems[1]) > 0 /\ stems[1][1] = Dot

GuardRejects_EmptyStem(path) ==
  LET stems == Split(StripLeading(path)) IN
  \E i \in 1..Len(stems) : Len(stems[i]) = 0 \/ stems[i][1] = Dot

\* for _, stem := range path { if len(stem) > 0 && stem[:1] == "." { 404 } }
GuardRejects(path) ==
  LET stems == Split(StripLeading(path)) IN
  \E i \in 1..Len(stems) : Len(stems[i]) > 0 /\ stems[i][1] = Dot

\* fileServer.ServeHTTP(w, r): the request the guard hands on is r itself.
GuardForwards(path) == path

\* ------------------------------------------- the standard file server
\* http.StripPrefix("/", h): serves the path without its leading "/", and
\* answers 404 itself when the path has none.
HasSlashPrefix(p) == Len(p) > 0 /\ p[1] = Slash

\* http.FileServer: the path it serves always starts with "/".
Rooted(p) == IF HasSlashPrefix(p) THEN p ELSE <<Slash>> \o p

\* strings.HasSuffix(r.URL.Path, "/index.html")
HasIndexSuffix(p) ==
  Len(p) >= 2 /\ p[Len(p)] = IndexName /\ p[Len(p) - 1] = Slash

\* path.Clean(upath), then http.FS's name: "/" is ".", else no leading "/".
ServedName(upath) ==
  LET c == CleanAcc(Split(upath), <<>>, TRUE) IN
  IF c = <<>> THEN RootP ELSE c

\* strings.TrimSuffix(name, "/") + "/index.html"
FsIndexName(name) == IF name = RootP THEN IdxP ELSE Append(name, IndexSeg)

\* toHTTPError: 404 for a not-exist error, a server error for the others
\* (the store of the model reports no permission error).
HTTPError(e) == IF e = "ErrNotExist" THEN "404" ELSE "500"

\* The request paths a client may send: every atom sequence up to MaxLen.
RECURSIVE PathsOfLen(_)
PathsOfLen(k) ==
  IF k = 0 THEN { <<>> }
  ELSE { Append(p, a) : p \in PathsOfLen(k - 1), a \in Atoms }

Paths == UNION { PathsOfLen(k) : k \in 0..MaxLen }

Guarded == comp \in {"guarded", "filtered"}

HTTPCallers == {"c1"}

StartCall(c, name) ==
  [IdleCall EXCEPT !.pc = "open", !.id = ncalls + 1, !.name = name]

\* The handler main registers receives a request.  Behind wrappedFileServer
\* a path with a dot stem is answered 404 at once; every other request goes
\* to the file server.  The first main function registers the file server
\* itself.
Handle(c, path) ==
  /\ reqs[c].stage = "none"
  /\ calls[c].pc = "idle"
  /\ IF Guarded /\ GuardRejects(path)
     THEN reqs' = [reqs EXCEPT ![c] =
                     [IdleReq EXCEPT !.stage = "responded", !.path = path,
                                     !.resp = "404", !.by = "guard"]]
     ELSE reqs' = [reqs EXCEPT ![c] =
                     [IdleReq EXCEPT !.stage = "serve", !.path = path,
                                     !.fsCalls = 1,
                                     !.fsArg = IF Guarded THEN GuardForwards(path)
                                               ELSE path]]
  /\ UNCHANGED <<comp, store, handles, calls, ncalls>>

\* The file server up to its open of the served name: StripPrefix (behind
\* the guard), the "/index.html" redirect, path.Clean and http.FS(root).Open.
FileServe(c) ==
  /\ reqs[c].stage = "serve"
  /\ LET arg == reqs[c].fsArg
         upath == IF Guarded THEN Rooted(Tail(arg)) ELSE Rooted(arg) IN
     IF Guarded /\ ~HasSlashPrefix(arg)
     THEN /\ reqs' = [reqs EXCEPT ![c].stage = "responded", ![c].resp = "404",
                                   ![c].by = "fileserver"]
          /\ UNCHANGED <<calls, ncalls>>
     ELSE IF HasIndexSuffix(upath)
          THEN /\ reqs' = [reqs EXCEPT ![c].stage = "responded",
                                        ![c].resp = "301", ![c].by = "fileserver",
                                        ![c].upath = upath]
               /\ UNCHANGED <<calls, ncalls>>
          ELSE /\ reqs' = [reqs EXCEPT ![c].stage = "main", ![c].upath = upath,
                                        ![c].opened = ServedName(upath)]
               /\ calls' = [calls EXCEPT ![c] = StartCall(c, ServedName(upath))]
               /\ ncalls' = ncalls + 1
  /\ UNCHANGED <<comp, store, handles>>

CloseByServer(hs, h) == [hs EXCEPT ![h].open = FALSE]

\* serveFile after fs.Open(name) returned: the error answer, the Stat, the
\* trailing-slash redirects, the file's content, or on to the index page.
FsAfterOpen(c) ==
  /\ reqs[c].stage = "main"
  /\ calls[c].pc = "done"
  /\ LET call == calls[c]
         k == Lookup(call.name)
         url == reqs[c].upath
         slashEnd == url[Len(url)] = Slash IN
     IF call.err # "none"
     THEN /\ reqs' = [reqs EXCEPT ![c].stage = "responded",
                                   ![c].resp = HTTPError(call.err),
                                   ![c].by = "fileserver"]
          /\ calls' = [calls EXCEPT ![c] = IdleCall]
          /\ UNCHANGED <<handles, ncalls>>
     ELSE IF k = "badstat"
          THEN /\ reqs' = [reqs EXCEPT ![c].stage = "responded",
                                        ![c].resp = "500", ![c].by = "fileserver"]
               /\ calls' = [calls EXCEPT ![c] = IdleCall]
               /\ handles' = CloseByServer(handles, call.ret)
               /\ UNCHANGED ncalls
          ELSE IF (k \in DirKinds) # slashEnd
               THEN /\ reqs' = [reqs EXCEPT ![c].stage = "responded",
                                             ![c].resp = "301",
                                             ![c].by = "fileserver"]
                    /\ calls' = [calls EXCEPT ![c] = IdleCall]
                    /\ handles' = CloseByServer(handles, call.ret)
                    /\ UNCHANGED ncalls
               ELSE IF k \in DirKinds
                    THEN /\ reqs' = [reqs EXCEPT ![c].stage = "index",
                                                  ![c].dirh = call.ret]
                         /\ calls' = [calls EXCEPT ![c] =
                                        StartCall(c, FsIndexName(call.name))]
                         /\ ncalls' = ncalls + 1
                         /\ UNCHANGED handles
                    ELSE /\ reqs' = [reqs EXCEPT ![c].stage = "responded",
                                                  ![c].resp = "200-file",
                                                  ![c].by = "fileserver"]
                         /\ calls' = [calls EXCEPT ![c] = IdleCall]
                         /\ handles' = CloseByServer(handles, call.ret)
                         /\ UNCHANGED ncalls
  /\ UNCHANGED <<comp, store>>

\* serveFile after fs.Open(index) returned: the index page when it opened
\* and its Stat succeeded, the directory's listing otherwise.
FsAfterIndex(c) ==
  /\ reqs[c].stage = "index"
  /\ calls[c].pc = "done"
  /\ LET call == calls[c]
         k == Lookup(call.name)
         dir == handles[reqs[c].dirh].path IN
     IF call.err # "none"
     THEN /\ reqs' = [reqs EXCEPT ![c].stage = "responded",
                                   ![c].resp = "200-listing", ![c].listed = dir,
                                   ![c].by = "fileserver"]
          /\ handles' = CloseByServer(handles, reqs[c].dirh)
     ELSE /\ reqs' = [reqs EXCEPT ![c].stage = "responded",
                        ![c].by = "fileserver",
                        ![c].resp = IF k = "badstat" \/ k \in DirKinds
                                    THEN "200-listing" ELSE "200-index",
                        ![c].listed = IF k = "badstat" THEN dir
                                      ELSE IF k \in DirKinds THEN call.name
                                      ELSE <<>>]
          /\ handles' = CloseByServer(CloseByServer(handles, reqs[c].dirh),
                                      call.ret)
  /\ calls' = [calls EXCEPT ![c] = IdleCall]
  /\ UNCHANGED <<comp, store, ncalls>>

\* ------------------------------------------------------------ SpecHTTP
\* The three main functions:
\*   "plain"    http.FileServer(http.FS(fs.Sub(embeddedFiles, "files")))
\*   "guarded"  wrappedFileServer(os.DirFS("files"))
\*   "filtered" wrappedFileServer(FilteringFS{fs: embeddedFiles}), whose root
\*              holds the embedded directory alone (here "a") and nothing else
InitHTTP ==
  /\ \/ comp = "plain" /\ store \in EmbedStores
     \/ comp = "guarded" /\ store \in { s \in Stores : s[RootP] = "dir" }
     \/ /\ comp = "filtered"
        /\ store \in { s \in EmbedStores : s[AP] = "dir" /\ s[IdxP] = "none" }
  /\ handles = <<>>
  /\ calls = [c \in Callers |-> IdleCall]
  /\ reqs = [c \in Callers |-> IdleReq]
  /\ ncalls = 0

NextHTTP ==
  \/ \E c \in HTTPCallers, path \in Paths : Handle(c, path)
  \/ \E c \in HTTPCallers : FileServe(c)
  \/ \E c \in HTTPCallers : OpenStep(c)
  \/ \E c \in HTTPCallers : StatStep(c)
  \/ \E c \in HTTPCallers : ProbeStep(c)
  \/ \E c \in HTTPCallers : CloseStep(c)
  \/ \E c \in HTTPCallers : FsAfterOpen(c)
  \/ \E c \in HTTPCallers : FsAfterIndex(c)

SpecHTTP == InitHTTP /\ [][NextHTTP]_vars

\* ------------------------------------------------------------ properties
Done(c) == calls[c].pc = "done"

\* The handles the store opened for call number id.
OpenedBy(id) == { h \in 1..Len(handles) : handles[h].by = id }

\* The index document's path of a directory of the store.
IndexDocOf(name) == IF name = RootP THEN IdxP ELSE Append(name, IndexSeg)

\* name is a directory of the store and opening its index.html there fails.
DirNoIndex(name) ==
  /\ ValidPath(name)
  /\ Lookup(name) \in DirKinds
  /\ Lookup(IndexDocOf(name)) = "none"

\* name is a directory of the store and opening its index.html there succeeds.
DirWithIndex(name) ==
  /\ ValidPath(name)
  /\ Lookup(name) \in DirKinds
  /\ Lookup(IndexDocOf(name)) # "none"

\* Some segment of the request path starts with ".": a "." at the start of
\* the path or right after a separator.
HasHiddenSegment(path) ==
  \E i \in 1..Len(path) : path[i] = Dot /\ (i = 1 \/ path[i - 1] = Slash)

\* C1: behind wrappedFileServer a request whose path has a segment starting
\* with "." is answered 404 by the guard, and neither the file server nor the
\* store's Open is ever invoked for it.
C1_HiddenRejected ==
  \A c \in Callers :
    (Guarded /\ reqs[c].stage # "none" /\ HasHiddenSegment(reqs[c].path)) =>
      /\ reqs[c].stage = "responded"
      /\ reqs[c].resp = "404"
      /\ reqs[c].by = "guard"
      /\ reqs[c].fsCalls = 0
      /\ calls[c].pc = "idle"
      /\ OpenedBy(calls[c].id) = {}
      /\ handles = <<>>
      /\ ncalls = 0

\* The request /a/.a for an existing hidden file has been answered.
C1_Witness ==
  \E c \in Callers :
    /\ Guarded
    /\ reqs[c].stage = "responded"
    /\ reqs[c].path = <<Slash, "a", Slash, Dot>>
    /\ store[HiddenP] = "file"

\* C2 (as claimed): Open of a directory whose index.html does not open returns
\* no handle and the index candidate's not-found error, and leaves no handle
\* of the call open.
C2_AsClaimed ==
  \A c \in Callers :
    (Done(c) /\ DirNoIndex(calls[c].name)) =>
      /\ calls[c].ret = NoHandle
      /\ calls[c].err = "ErrNotExist"
      /\ \A h \in OpenedBy(calls[c].id) : ~handles[h].open

\* C2 (amended): Open of a directory whose index.html does not open returns no
\* handle; when closing the directory handle succeeds the error is the index
\* candidate's not-found error and no handle of the call is left open; when
\* the close fails the error is the close error.
C2_DirWithoutIndex ==
  \A c \in Callers :
    (Done(c) /\ DirNoIndex(calls[c].name)) =>
      /\ calls[c].ret = NoHandle
      /\ Lookup(calls[c].name) = "dir" =>
           /\ calls[c].err = "ErrNotExist"
           /\ OpenedBy(calls[c].id) # {}
           /\ \A h \in OpenedBy(calls[c].id) : ~handles[h].open
      /\ Lookup(calls[c].name) = "dirbadclose" => calls[c].err = "ErrClose"

\* Open("a") returned for a directory a without index.html whose Close works.
C2_Witness ==
  \E c \in Callers :
    /\ Done(c)
    /\ calls[c].name = AP
    /\ DirNoIndex(AP)
    /\ Lookup(AP) = "dir"
    /\ calls[c].nclose = 1

\* C3: after a successful Open of a directory the only handle of the call
\* still open is the one returned (the index probe's handle has been closed).
C3_ProbeHandleClosed ==
  \A c \in Callers :
    (Done(c) /\ calls[c].ret # NoHandle /\ Lookup(calls[c].name) \in DirKinds) =>
      \A h \in OpenedBy(calls[c].id) : handles[h].open => h = calls[c].ret

\* C4: when Open returns an error, Close has been called on every handle the
\* call opened.
C4_ErrorExitsCloseAll ==
  \A c \in Callers :
    (Done(c) /\ calls[c].err # "none") =>
      \A h \in OpenedBy(calls[c].id) : handles[h].closedBy # NoCall

\* C6: Open of a directory whose index.html opens in the underlying store
\* returns, without error, the directory handle of its first open, not closed.
C6_DirWithIndex ==
  \A c \in Callers :
    (Done(c) /\ DirWithIndex(calls[c].name)) =>
      /\ calls[c].err = "none"
      /\ calls[c].ret # NoHandle
      /\ calls[c].ret \in OpenedBy(calls[c].id)
      /\ \A h \in OpenedBy(calls[c].id) : calls[c].ret <= h
      /\ handles[calls[c].ret].path = calls[c].name
      /\ handles[calls[c].ret].open
      /\ handles[calls[c].ret].closedBy = NoCall

\* Open(".") returned where the root's index.html is itself a directory.
C6_Witness ==
  \E c \in Callers :
    /\ Done(c)
    /\ calls[c].name = RootP
    /\ Lookup(IdxP) = "dir"
    /\ calls[c].ret # NoHandle

\* C7: Open of a regular file returns the store's handle for that path, open,
\* after exactly one Open on the store, no probe and no Close.
C7_RegularFile ==
  \A c \in Callers :
    (Done(c) /\ ValidPath(calls[c].name) /\ Lookup(calls[c].name) = "file") =>
      /\ calls[c].err = "none"
      /\ calls[c].ret # NoHandle
      /\ OpenedBy(calls[c].id) = {calls[c].ret}
      /\ handles[calls[c].ret].path = calls[c].name
      /\ handles[calls[c].ret].open
      /\ handles[calls[c].ret].closedBy = NoCall
      /\ calls[c].nopen = 1
      /\ calls[c].nclose = 0

\* Open("a/index.html") returned for a regular file.
C7_Witness ==
  \E c \in Callers :
    /\ Done(c)
    /\ calls[c].name = AIdxP
    /\ Lookup(AIdxP) = "file"
    /\ calls[c].nopen = 1

\* C8: however calls interleave, each call succeeds or fails as a call alone
\* on the store would for its path, and no call closes or returns a handle
\* another call opened.
C8_Reentrant ==
  /\ \A c \in Callers :
       Done(c) =>
         /\ (IF calls[c].err = "none" THEN "ok" ELSE "fail") = Classify(calls[c].name)
         /\ (calls[c].err = "none") = (calls[c].ret # NoHandle)
         /\ calls[c].ret # NoHandle => handles[calls[c].ret].by = calls[c].id
  /\ \A h \in 1..Len(handles) :
       handles[h].closedBy # NoCall => handles[h].closedBy = handles[h].by

\* Two calls for the same directory without index.html have both returned, and
\* the call that entered second opened its directory handle first.
C8_Witness ==
  /\ Done("c1") /\ Done("c2")
  /\ calls["c1"].name = calls["c2"].name
  /\ DirNoIndex(calls["c1"].name)
  /\ calls["c1"].id < calls["c2"].id
  /\ Len(handles) = 2
  /\ handles[1].by = calls["c2"].id
  /\ handles[2].by = calls["c1"].id

\* C9: behind wrappedFileServer a request whose path has no segment starting
\* with "." is not answered by the guard: the file server is invoked exactly
\* once, with the request's path unchanged.
C9_Delegated ==
  \A c \in Callers :
    (Guarded /\ reqs[c].stage # "none" /\ ~HasHiddenSegment(reqs[c].path)) =>
      /\ reqs[c].by # "guard"
      /\ reqs[c].fsCalls = 1
      /\ reqs[c].fsArg = reqs[c].path

\* The request //a/ (a doubled and a trailing separator) went to the file
\* server, which opened "a".
C9_Witness ==
  \E c \in Callers :
    /\ Guarded
    /\ reqs[c].path = <<Slash, Slash, "a", Slash>>
    /\ reqs[c].fsCalls = 1
    /\ reqs[c].opened = AP

\* C10: Open of a directory whose index.html does not open returns no handle,
\* and the close error when closing the directory handle fails, the index
\* candidate's open error when it succeeds.
C10_CloseErrorPreferred ==
  \A c \in Callers :
    (Done(c) /\ DirNoIndex(calls[c].name)) =>
      /\ calls[c].ret = NoHandle
      /\ calls[c].nclose = 1
      /\ calls[c].err = IF Lookup(calls[c].name) = "dirbadclose"
                        THEN "ErrClose"
                        ELSE StoreOpenErr(IndexDocOf(calls[c].name))

\* Open("a") returned where closing a's handle fails.
C10_Witness ==
  \E c \in Callers :
    /\ Done(c)
    /\ calls[c].name = AP
    /\ Lookup(AP) = "dirbadclose"
    /\ calls[c].err = "ErrClose"

\* C5 (as claimed): in every composition a request is answered 404 when its
\* path has a hidden segment or the name served is a directory without index
\* document or absent from the store, and no directory without index
\* document is served as a listing.  (The file server's redirects are left
\* out: they answer no content.)
C5_AsClaimed ==
  \A c \in Callers :
    (reqs[c].stage = "responded" /\ reqs[c].resp # "301") =>
      /\ HasHiddenSegment(reqs[c].path) => reqs[c].resp = "404"
      /\ (reqs[c].opened # <<>> /\
          (DirNoIndex(reqs[c].opened) \/ Lookup(reqs[c].opened) = "none")) =>
           reqs[c].resp = "404"
      /\ reqs[c].resp = "200-listing" => ~DirNoIndex(reqs[c].listed)

\* C5 (amended): in the composition that hands wrappedFileServer a FilteringFS,
\* a request with a hidden segment is answered 404; a request for which the
\* file server opens a name that is absent from the store, or a directory
\* whose index.html does not open, is answered 404; no directory whose
\* index.html does not open is served as a listing.
C5_FilteredComposition ==
  \A c \in Callers :
    (comp = "filtered" /\ reqs[c].stage = "responded") =>
      /\ HasHiddenSegment(reqs[c].path) => reqs[c].resp = "404"
      /\ (reqs[c].opened # <<>> /\
          (DirNoIndex(reqs[c].opened) \/ Lookup(reqs[c].opened) = "none")) =>
           reqs[c].resp = "404"
      /\ reqs[c].resp = "200-listing" => ~DirNoIndex(reqs[c].listed)

\* The request /a/ for a directory a without index.html got 404 from the file
\* server bound to the FilteringFS.
C5_Witness ==
  \E c \in Callers :
    /\ comp = "filtered"
    /\ reqs[c].stage = "responded"
    /\ reqs[c].path = <<Slash, "a", Slash>>
    /\ reqs[c].opened = AP
    /\ DirNoIndex(AP)
    /\ Lookup(AP) = "dir"
    /\ reqs[c].resp = "404"
    /\ reqs[c].by = "fileserver"

====
